---- MODULE Spec2Model ----
(***************************************************************************)
(* Model of the ledger of src/src/main.rs: Ledger::process and its five    *)
(* handlers acting on transactions_by_id and account_by_id.                *)
(*                                                                         *)
(* Decimal amounts are modelled as integers (a fixed number of minor       *)
(* units); Option<Decimal> is a sequence of length 0 (None) or 1 (Some).   *)
(* A HashMap is a function whose DOMAIN is the set of keys present.        *)
(* Option::unwrap on None panics: the handler stops where it is and the    *)
(* ledger is marked panicked, after which no record is processed.          *)
(* outcome names the branch the last process() call took: "applied" (the   *)
(* balances were written), "rejected" (an eprintln! diagnostic), "ignored" *)
(* (a silent return) or "panicked".                                        *)
(***************************************************************************)
EXTENDS Integers, FiniteSets, Sequences, TLC

\* ---- bounds -------------------------------------------------------------
MaxClient == 2
MaxTx == 2
MaxAmount == 1
MaxNegative == 1
MaxSteps == 4

Clients == 1..MaxClient
TxIds == 1..MaxTx

\* ---- Option<Decimal> ----------------------------------------------------
None == << >>

Some(a) == << a >>

is_some(o) == Len(o) = 1

unwrap(o) == o[1]

Amounts == {None} \cup {Some(a) : a \in (0 - MaxNegative)..MaxAmount}

\* ---- enum TransactionType ------------------------------------------------
TransactionType == {"Deposit", "Withdrawal", "Dispute", "Resolve", "Chargeback"}

\* ---- struct Transaction ---------------------------------------------------
\* The records of one type. Dispute, Resolve and Chargeback rows carry no
\* amount, and no handler reads the amount or the disputed field of such a
\* record.
Records(type) ==
    IF type \in {"Deposit", "Withdrawal"}
    THEN [transaction_type : {type},
          client_id : Clients,
          transaction_id : TxIds,
          amount : Amounts,
          disputed : BOOLEAN]
    ELSE [transaction_type : {type},
          client_id : Clients,
          transaction_id : TxIds,
          amount : {None},
          disputed : {FALSE}]

Transaction == UNION {Records(type) : type \in TransactionType}

\* ---- Account::new ---------------------------------------------------------
AccountNew(client_id) ==
    [client_id |-> client_id, available |-> 0, held |-> 0, total |-> 0,
     locked |-> FALSE]

\* HashMap::insert: add or overwrite the entry of key k
insert(m, k, v) == [x \in (DOMAIN m) \cup {k} |-> IF x = k THEN v ELSE m[x]]

\* Ledger::default(): two empty maps
LedgerDefault ==
    [transactions_by_id |-> << >>, account_by_id |-> << >>, panicked |-> FALSE,
     outcome |-> "none"]

\* Option::unwrap on None: the handler is abandoned with what it wrote so far
panic(l) == [l EXCEPT !.panicked = TRUE, !.outcome = "panicked"]

\* ---- Ledger::deposit ------------------------------------------------------
\* deposit that keeps the entry already stored under the id
\* (entry().or_insert in place of insert)
deposit_keeps_first(l, transaction) ==
    LET c == transaction.client_id
        recorded ==
            IF transaction.transaction_id \in DOMAIN l.transactions_by_id
            THEN l
            ELSE [l EXCEPT !.transactions_by_id =
                     insert(l.transactions_by_id, transaction.transaction_id,
                            transaction)]
    IN  IF c \in DOMAIN l.account_by_id
        THEN IF ~is_some(transaction.amount)
             THEN panic(recorded)
             ELSE LET account == l.account_by_id[c]
                      available == account.available + unwrap(transaction.amount)
                  IN  [recorded EXCEPT
                          !.account_by_id[c] =
                              [account EXCEPT !.available = available,
                                              !.total = available + account.held],
                          !.outcome = "applied"]
        ELSE IF ~is_some(transaction.amount)
             THEN panic(recorded)
             ELSE LET account == [AccountNew(c) EXCEPT
                                      !.available = unwrap(transaction.amount),
                                      !.total = unwrap(transaction.amount)]
                  IN  [recorded EXCEPT
                          !.account_by_id = insert(l.account_by_id, c, account),
                          !.outcome = "applied"]

deposit(l, transaction) ==
    LET c == transaction.client_id
        recorded == [l EXCEPT !.transactions_by_id =
                         insert(l.transactions_by_id, transaction.transaction_id,
                                transaction)]
    IN  IF c \in DOMAIN l.account_by_id
        THEN IF ~is_some(transaction.amount)
             THEN panic(recorded)
             ELSE LET account == l.account_by_id[c]
                      available == account.available + unwrap(transaction.amount)
                  IN  [recorded EXCEPT
                          !.account_by_id[c] =
                              [account EXCEPT !.available = available,
                                              !.total = available + account.held],
                          !.outcome = "applied"]
        ELSE IF ~is_some(transaction.amount)
             THEN panic(recorded)
             ELSE LET account == [AccountNew(c) EXCEPT
                                      !.available = unwrap(transaction.amount),
                                      !.total = unwrap(transaction.amount)]
                  IN  [recorded EXCEPT
                          !.account_by_id = insert(l.account_by_id, c, account),
                          !.outcome = "applied"]

\* ---- Ledger::withdraw -----------------------------------------------------
\* withdraw that opens an account for a client that has none
\* (entry().or_insert in place of get_mut)
withdraw_creates_account(l, transaction) ==
    LET c == transaction.client_id
        recorded == [l EXCEPT !.transactions_by_id =
                         insert(l.transactions_by_id, transaction.transaction_id,
                                transaction)]
    IN  IF c \in DOMAIN l.account_by_id
        THEN IF ~is_some(transaction.amount)
             THEN panic(recorded)
             ELSE LET account == l.account_by_id[c]
                      amount == unwrap(transaction.amount)
                  IN  IF account.available < amount
                      THEN [recorded EXCEPT !.outcome = "rejected"]
                      ELSE [recorded EXCEPT
                               !.account_by_id[c] =
                                   [account EXCEPT
                                       !.available = account.available - amount,
                                       !.total = account.total - amount],
                               !.outcome = "applied"]
        ELSE [recorded EXCEPT
                 !.account_by_id = insert(l.account_by_id, c, AccountNew(c)),
                 !.outcome = "ignored"]

\* withdraw with `account.total -= amount` forgotten
withdraw_no_total(l, transaction) ==
    LET c == transaction.client_id
        recorded == [l EXCEPT !.transactions_by_id =
                         insert(l.transactions_by_id, transaction.transaction_id,
                                transaction)]
    IN  IF c \in DOMAIN l.account_by_id
        THEN IF ~is_some(transaction.amount)
             THEN panic(recorded)
             ELSE LET account == l.account_by_id[c]
                      amount == unwrap(transaction.amount)
                  IN  IF account.available < amount
                      THEN [recorded EXCEPT !.outcome = "rejected"]
                      ELSE [recorded EXCEPT
                               !.account_by_id[c].available = account.available - amount,
                               !.outcome = "applied"]
        ELSE [recorded EXCEPT !.outcome = "ignored"]

\* withdraw with the `else` forgotten: the diagnostic is printed and the
\* amount is taken all the same
withdraw_overdraw(l, transaction) ==
    LET c == transaction.client_id
        recorded == [l EXCEPT !.transactions_by_id =
                         insert(l.transactions_by_id, transaction.transaction_id,
                                transaction)]
    IN  IF c \in DOMAIN l.account_by_id
        THEN IF ~is_some(transaction.amount)
             THEN panic(recorded)
             ELSE LET account == l.account_by_id[c]
                      amount == unwrap(transaction.amount)
                  IN  [recorded EXCEPT
                          !.account_by_id[c] =
                              [account EXCEPT
                                  !.available = account.available - amount,
                                  !.total = account.total - amount],
                          !.outcome = IF account.available < amount
                                      THEN "rejected" ELSE "applied"]
        ELSE [recorded EXCEPT !.outcome = "ignored"]

\* withdraw with the strict test of dispute: available <= amount is refused
withdraw_strict(l, transaction) ==
    LET c == transaction.client_id
        recorded == [l EXCEPT !.transactions_by_id =
                         insert(l.transactions_by_id, transaction.transaction_id,
                                transaction)]
    IN  IF c \in DOMAIN l.account_by_id
        THEN IF ~is_some(transaction.amount)
             THEN panic(recorded)
             ELSE LET account == l.account_by_id[c]
                      amount == unwrap(transaction.amount)
                  IN  IF account.available <= amount
                      THEN [recorded EXCEPT !.outcome = "rejected"]
                      ELSE [recorded EXCEPT
                               !.account_by_id[c] =
                                   [account EXCEPT
                                       !.available = account.available - amount,
                                       !.total = account.total - amount],
                               !.outcome = "applied"]
        ELSE [recorded EXCEPT !.outcome = "ignored"]

\* withdraw that refuses a locked account
withdraw_locked_gate(l, transaction) ==
    LET c == transaction.client_id
        recorded == [l EXCEPT !.transactions_by_id =
                         insert(l.transactions_by_id, transaction.transaction_id,
                                transaction)]
    IN  IF c \in DOMAIN l.account_by_id
        THEN IF ~is_some(transaction.amount)
             THEN panic(recorded)
             ELSE LET account == l.account_by_id[c]
                      amount == unwrap(transaction.amount)
                  IN  IF account.locked \/ account.available < amount
                      THEN [recorded EXCEPT !.outcome = "rejected"]
                      ELSE [recorded EXCEPT
                               !.account_by_id[c] =
                                   [account EXCEPT
                                       !.available = account.available - amount,
                                       !.total = account.total - amount],
                               !.outcome = "applied"]
        ELSE [recorded EXCEPT !.outcome = "ignored"]

withdraw(l, transaction) ==
    LET c == transaction.client_id
        recorded == [l EXCEPT !.transactions_by_id =
                         insert(l.transactions_by_id, transaction.transaction_id,
                                transaction)]
    IN  IF c \in DOMAIN l.account_by_id
        THEN IF ~is_some(transaction.amount)
             THEN panic(recorded)
             ELSE LET account == l.account_by_id[c]
                      amount == unwrap(transaction.amount)
                  IN  IF account.available < amount
                      THEN [recorded EXCEPT !.outcome = "rejected"]
                      ELSE [recorded EXCEPT
                               !.account_by_id[c] =
                                   [account EXCEPT
                                       !.available = account.available - amount,
                                       !.total = account.total - amount],
                               !.outcome = "applied"]
        ELSE [recorded EXCEPT !.outcome = "ignored"]

\* ---- Ledger::dispute ------------------------------------------------------
\* dispute with the ownership test forgotten: any client may dispute any id
dispute_any_client(l, transaction) ==
    LET id == transaction.transaction_id
        c == transaction.client_id
    IN  IF id \in DOMAIN l.transactions_by_id
        THEN LET fetched_transaction == l.transactions_by_id[id]
             IN  IF c \in DOMAIN l.account_by_id
                 THEN LET account == l.account_by_id[c]
                          flagged == [l EXCEPT
                              !.transactions_by_id[id].disputed = TRUE]
                      IN  IF ~is_some(fetched_transaction.amount)
                          THEN panic(flagged)
                          ELSE LET transaction_amount ==
                                       unwrap(fetched_transaction.amount)
                               IN  IF account.available > transaction_amount
                                   THEN [flagged EXCEPT
                                            !.account_by_id[c].available =
                                                account.available - transaction_amount,
                                            !.account_by_id[c].held =
                                                account.held + transaction_amount,
                                            !.outcome = "applied"]
                                   ELSE [flagged EXCEPT !.outcome = "rejected"]
                 ELSE [l EXCEPT !.outcome = "ignored"]
        ELSE [l EXCEPT !.outcome = "rejected"]

\* dispute that opens an account for the disputing client when the id is
\* unknown
dispute_creates_account(l, transaction) ==
    LET id == transaction.transaction_id
        c == transaction.client_id
    IN  IF id \in DOMAIN l.transactions_by_id
        THEN LET fetched_transaction == l.transactions_by_id[id]
             IN  IF fetched_transaction.client_id = c
                 THEN IF c \in DOMAIN l.account_by_id
                      THEN LET account == l.account_by_id[c]
                               flagged == [l EXCEPT
                                   !.transactions_by_id[id].disputed = TRUE]
                           IN  IF ~is_some(fetched_transaction.amount)
                               THEN panic(flagged)
                               ELSE LET transaction_amount ==
                                            unwrap(fetched_transaction.amount)
                                    IN  IF account.available > transaction_amount
                                        THEN [flagged EXCEPT
                                                 !.account_by_id[c].available =
                                                     account.available - transaction_amount,
                                                 !.account_by_id[c].held =
                                                     account.held + transaction_amount,
                                                 !.outcome = "applied"]
                                        ELSE [flagged EXCEPT !.outcome = "rejected"]
                      ELSE [l EXCEPT !.outcome = "ignored"]
                 ELSE [l EXCEPT !.outcome = "ignored"]
        ELSE [l EXCEPT
                 !.account_by_id =
                     IF c \in DOMAIN l.account_by_id THEN l.account_by_id
                     ELSE insert(l.account_by_id, c, AccountNew(c)),
                 !.outcome = "rejected"]

\* dispute with the non-strict test of resolve: available >= amount
dispute_nonstrict(l, transaction) ==
    LET id == transaction.transaction_id
        c == transaction.client_id
    IN  IF id \in DOMAIN l.transactions_by_id
        THEN LET fetched_transaction == l.transactions_by_id[id]
             IN  IF fetched_transaction.client_id = c
                 THEN IF c \in DOMAIN l.account_by_id
                      THEN LET account == l.account_by_id[c]
                               flagged == [l EXCEPT
                                   !.transactions_by_id[id].disputed = TRUE]
                           IN  IF ~is_some(fetched_transaction.amount)
                               THEN panic(flagged)
                               ELSE LET transaction_amount ==
                                            unwrap(fetched_transaction.amount)
                                    IN  IF account.available >= transaction_amount
                                        THEN [flagged EXCEPT
                                                 !.account_by_id[c].available =
                                                     account.available - transaction_amount,
                                                 !.account_by_id[c].held =
                                                     account.held + transaction_amount,
                                                 !.outcome = "applied"]
                                        ELSE [flagged EXCEPT !.outcome = "rejected"]
                      ELSE [l EXCEPT !.outcome = "ignored"]
                 ELSE [l EXCEPT !.outcome = "ignored"]
        ELSE [l EXCEPT !.outcome = "rejected"]

\* dispute that looks the account up by the stored transaction's client
\* instead of testing that the record's client owns the transaction
dispute_owner_account(l, transaction) ==
    LET id == transaction.transaction_id
    IN  IF id \in DOMAIN l.transactions_by_id
        THEN LET fetched_transaction == l.transactions_by_id[id]
                 c == fetched_transaction.client_id
             IN  IF c \in DOMAIN l.account_by_id
                 THEN LET account == l.account_by_id[c]
                          flagged == [l EXCEPT
                              !.transactions_by_id[id].disputed = TRUE]
                      IN  IF ~is_some(fetched_transaction.amount)
                          THEN panic(flagged)
                          ELSE LET transaction_amount ==
                                       unwrap(fetched_transaction.amount)
                               IN  IF account.available > transaction_amount
                                   THEN [flagged EXCEPT
                                            !.account_by_id[c].available =
                                                account.available - transaction_amount,
                                            !.account_by_id[c].held =
                                                account.held + transaction_amount,
                                            !.outcome = "applied"]
                                   ELSE [flagged EXCEPT !.outcome = "rejected"]
                 ELSE [l EXCEPT !.outcome = "ignored"]
        ELSE [l EXCEPT !.outcome = "rejected"]

dispute(l, transaction) ==
    LET id == transaction.transaction_id
        c == transaction.client_id
    IN  IF id \in DOMAIN l.transactions_by_id
        THEN LET fetched_transaction == l.transactions_by_id[id]
             IN  IF fetched_transaction.client_id = c
                 THEN IF c \in DOMAIN l.account_by_id
                      THEN LET account == l.account_by_id[c]
                               flagged == [l EXCEPT
                                   !.transactions_by_id[id].disputed = TRUE]
                           IN  IF ~is_some(fetched_transaction.amount)
                               THEN panic(flagged)
                               ELSE LET transaction_amount ==
                                            unwrap(fetched_transaction.amount)
                                    IN  IF account.available > transaction_amount
                                        THEN [flagged EXCEPT
                                                 !.account_by_id[c].available =
                                                     account.available - transaction_amount,
                                                 !.account_by_id[c].held =
                                                     account.held + transaction_amount,
                                                 !.outcome = "applied"]
                                        ELSE [flagged EXCEPT !.outcome = "rejected"]
                      ELSE [l EXCEPT !.outcome = "ignored"]
                 ELSE [l EXCEPT !.outcome = "ignored"]
        ELSE [l EXCEPT !.outcome = "rejected"]

\* ---- Ledger::resolve ------------------------------------------------------
\* resolve with `fetched_transaction.disputed = false` forgotten
resolve_keeps_flag(l, transaction) ==
    LET id == transaction.transaction_id
        c == transaction.client_id
    IN  IF id \in DOMAIN l.transactions_by_id
        THEN LET fetched_transaction == l.transactions_by_id[id]
             IN  IF fetched_transaction.client_id = c
                 THEN IF c \in DOMAIN l.account_by_id
                      THEN IF ~is_some(fetched_transaction.amount)
                           THEN panic(l)
                           ELSE LET account == l.account_by_id[c]
                                    transaction_amount ==
                                        unwrap(fetched_transaction.amount)
                                IN  IF fetched_transaction.disputed
                                       /\ account.held >= transaction_amount
                                    THEN [l EXCEPT
                                             !.account_by_id[c].available =
                                                 account.available + transaction_amount,
                                             !.account_by_id[c].held =
                                                 account.held - transaction_amount,
                                             !.outcome = "applied"]
                                    ELSE [l EXCEPT !.outcome = "rejected"]
                      ELSE [l EXCEPT !.outcome = "ignored"]
                 ELSE [l EXCEPT !.outcome = "ignored"]
        ELSE [l EXCEPT !.outcome = "rejected"]

\* resolve with the strict test of dispute: held > amount
resolve_strict(l, transaction) ==
    LET id == transaction.transaction_id
        c == transaction.client_id
    IN  IF id \in DOMAIN l.transactions_by_id
        THEN LET fetched_transaction == l.transactions_by_id[id]
             IN  IF fetched_transaction.client_id = c
                 THEN IF c \in DOMAIN l.account_by_id
                      THEN IF ~is_some(fetched_transaction.amount)
                           THEN panic(l)
                           ELSE LET account == l.account_by_id[c]
                                    transaction_amount ==
                                        unwrap(fetched_transaction.amount)
                                    moved ==
                                        IF fetched_transaction.disputed
                                           /\ account.held > transaction_amount
                                        THEN [l EXCEPT
                                                 !.account_by_id[c].available =
                                                     account.available + transaction_amount,
                                                 !.account_by_id[c].held =
                                                     account.held - transaction_amount,
                                                 !.outcome = "applied"]
                                        ELSE [l EXCEPT !.outcome = "rejected"]
                                IN  [moved EXCEPT
                                        !.transactions_by_id[id].disputed = FALSE]
                      ELSE [l EXCEPT !.outcome = "ignored"]
                 ELSE [l EXCEPT !.outcome = "ignored"]
        ELSE [l EXCEPT !.outcome = "rejected"]

resolve(l, transaction) ==
    LET id == transaction.transaction_id
        c == transaction.client_id
    IN  IF id \in DOMAIN l.transactions_by_id
        THEN LET fetched_transaction == l.transactions_by_id[id]
             IN  IF fetched_transaction.client_id = c
                 THEN IF c \in DOMAIN l.account_by_id
                      THEN IF ~is_some(fetched_transaction.amount)
                           THEN panic(l)
                           ELSE LET account == l.account_by_id[c]
                                    transaction_amount ==
                                        unwrap(fetched_transaction.amount)
                                    moved ==
                                        IF fetched_transaction.disputed
                                           /\ account.held >= transaction_amount
                                        THEN [l EXCEPT
                                                 !.account_by_id[c].available =
                                                     account.available + transaction_amount,
                                                 !.account_by_id[c].held =
                                                     account.held - transaction_amount,
                                                 !.outcome = "applied"]
                                        ELSE [l EXCEPT !.outcome = "rejected"]
                                IN  [moved EXCEPT
                                        !.transactions_by_id[id].disputed = FALSE]
                      ELSE [l EXCEPT !.outcome = "ignored"]
                 ELSE [l EXCEPT !.outcome = "ignored"]
        ELSE [l EXCEPT !.outcome = "rejected"]

\* ---- Ledger::chargeback ---------------------------------------------------
\* chargeback that takes the amount out of available instead of held
chargeback_takes_available(l, transaction) ==
    LET id == transaction.transaction_id
        c == transaction.client_id
    IN  IF id \in DOMAIN l.transactions_by_id
        THEN LET fetched_transaction == l.transactions_by_id[id]
             IN  IF fetched_transaction.client_id = c
                 THEN IF c \in DOMAIN l.account_by_id
                      THEN IF ~is_some(fetched_transaction.amount)
                           THEN panic(l)
                           ELSE LET account == l.account_by_id[c]
                                    transaction_amount ==
                                        unwrap(fetched_transaction.amount)
                                    moved ==
                                        IF fetched_transaction.disputed
                                           /\ account.held >= transaction_amount
                                        THEN [l EXCEPT
                                                 !.account_by_id[c].total =
                                                     account.total - transaction_amount,
                                                 !.account_by_id[c].available =
                                                     account.available - transaction_amount,
                                                 !.account_by_id[c].locked = TRUE,
                                                 !.outcome = "applied"]
                                        ELSE [l EXCEPT !.outcome = "rejected"]
                                IN  [moved EXCEPT
                                        !.transactions_by_id[id].disputed = FALSE]
                      ELSE [l EXCEPT !.outcome = "ignored"]
                 ELSE [l EXCEPT !.outcome = "ignored"]
        ELSE [l EXCEPT !.outcome = "rejected"]

\* chargeback with `account.locked = true` forgotten
chargeback_no_lock(l, transaction) ==
    LET id == transaction.transaction_id
        c == transaction.client_id
    IN  IF id \in DOMAIN l.transactions_by_id
        THEN LET fetched_transaction == l.transactions_by_id[id]
             IN  IF fetched_transaction.client_id = c
                 THEN IF c \in DOMAIN l.account_by_id
                      THEN IF ~is_some(fetched_transaction.amount)
                           THEN panic(l)
                           ELSE LET account == l.account_by_id[c]
                                    transaction_amount ==
                                        unwrap(fetched_transaction.amount)
                                    moved ==
                                        IF fetched_transaction.disputed
                                           /\ account.held >= transaction_amount
                                        THEN [l EXCEPT
                                                 !.account_by_id[c].total =
                                                     account.total - transaction_amount,
                                                 !.account_by_id[c].held =
                                                     account.held - transaction_amount,
                                                 !.outcome = "applied"]
                                        ELSE [l EXCEPT !.outcome = "rejected"]
                                IN  [moved EXCEPT
                                        !.transactions_by_id[id].disputed = FALSE]
                      ELSE [l EXCEPT !.outcome = "ignored"]
                 ELSE [l EXCEPT !.outcome = "ignored"]
        ELSE [l EXCEPT !.outcome = "rejected"]

\* chargeback with the `fetched_transaction.disputed &&` test forgotten
chargeback_ignores_flag(l, transaction) ==
    LET id == transaction.transaction_id
        c == transaction.client_id
    IN  IF id \in DOMAIN l.transactions_by_id
        THEN LET fetched_transaction == l.transactions_by_id[id]
             IN  IF fetched_transaction.client_id = c
                 THEN IF c \in DOMAIN l.account_by_id
                      THEN IF ~is_some(fetched_transaction.amount)
                           THEN panic(l)
                           ELSE LET account == l.account_by_id[c]
                                    transaction_amount ==
                                        unwrap(fetched_transaction.amount)
                                    moved ==
                                        IF account.held >= transaction_amount
                                        THEN [l EXCEPT
                                                 !.account_by_id[c].total =
                                                     account.total - transaction_amount,
                                                 !.account_by_id[c].held =
                                                     account.held - transaction_amount,
                                                 !.account_by_id[c].locked = TRUE,
                                                 !.outcome = "applied"]
                                        ELSE [l EXCEPT !.outcome = "rejected"]
                                IN  [moved EXCEPT
                                        !.transactions_by_id[id].disputed = FALSE]
                      ELSE [l EXCEPT !.outcome = "ignored"]
                 ELSE [l EXCEPT !.outcome = "ignored"]
        ELSE [l EXCEPT !.outcome = "rejected"]

chargeback(l, transaction) ==
    LET id == transaction.transaction_id
        c == transaction.client_id
    IN  IF id \in DOMAIN l.transactions_by_id
        THEN LET fetched_transaction == l.transactions_by_id[id]
             IN  IF fetched_transaction.client_id = c
                 THEN IF c \in DOMAIN l.account_by_id
                      THEN IF ~is_some(fetched_transaction.amount)
                           THEN panic(l)
                           ELSE LET account == l.account_by_id[c]
                                    transaction_amount ==
                                        unwrap(fetched_transaction.amount)
                                    moved ==
                                        IF fetched_transaction.disputed
                                           /\ account.held >= transaction_amount
                                        THEN [l EXCEPT
                                                 !.account_by_id[c].total =
                                                     account.total - transaction_amount,
                                                 !.account_by_id[c].held =
                                                     account.held - transaction_amount,
                                                 !.account_by_id[c].locked = TRUE,
                                                 !.outcome = "applied"]
                                        ELSE [l EXCEPT !.outcome = "rejected"]
                                IN  [moved EXCEPT
                                        !.transactions_by_id[id].disputed = FALSE]
                      ELSE [l EXCEPT !.outcome = "ignored"]
                 ELSE [l EXCEPT !.outcome = "ignored"]
        ELSE [l EXCEPT !.outcome = "rejected"]

\* ---- Ledger::process ------------------------------------------------------
\* A ledger whose process() panicked is gone: main() aborts and nothing more
\* is processed.
process(l, transaction) ==
    IF l.panicked THEN l
    ELSE CASE transaction.transaction_type = "Deposit" -> deposit(l, transaction)
           [] transaction.transaction_type = "Withdrawal" -> withdraw(l, transaction)
           [] transaction.transaction_type = "Dispute" -> dispute(l, transaction)
           [] transaction.transaction_type = "Resolve" -> resolve(l, transaction)
           [] transaction.transaction_type = "Chargeback" -> chargeback(l, transaction)

\* ---- Ledger::get_account --------------------------------------------------
get_account(l, client_id) ==
    IF client_id \in DOMAIN l.account_by_id
    THEN Some(l.account_by_id[client_id])
    ELSE None

\* ---- state ----------------------------------------------------------------
VARIABLES
    transactions_by_id,  \* Ledger.transactions_by_id
    account_by_id,       \* Ledger.account_by_id
    panicked,            \* an unwrap() of None aborted process()
    outcome,             \* the branch the last process() call took
    last,                \* the record of the last process() call (None at start)
    steps,               \* number of records read from the stream
    non_negative,        \* every Deposit/Withdrawal amount so far was >= 0
    plain,               \* every record so far was as the input format has it:
                         \* disputed = false, Deposit/Withdrawal amount present
                         \* and >= 0
    deposited,           \* clients of the Deposit records processed so far
    dispute_since,       \* <<c, id>>: a Dispute of id by c was processed, and no
                         \* Resolve, Chargeback, Deposit or Withdrawal record
                         \* carrying id since
    dispute_open,        \* <<c, id>>: since the last Deposit or Withdrawal
                         \* record carrying id, that record came flagged
                         \* disputed for c or a Dispute of id by c was
                         \* processed, and no Resolve or Chargeback of id by c
                         \* since while c had an account
    charged,             \* clients to whose account a Chargeback was applied
    net                  \* per client: the amounts of its Deposit records,
                         \* minus those of its applied Withdrawals, minus
                         \* those of its applied Chargebacks

vars == <<transactions_by_id, account_by_id, panicked, outcome, last, steps,
          non_negative, plain, deposited, dispute_since, dispute_open,
          charged, net>>

ledger ==
    [transactions_by_id |-> transactions_by_id,
     account_by_id |-> account_by_id,
     panicked |-> panicked,
     outcome |-> outcome]

Init ==
    /\ transactions_by_id = LedgerDefault.transactions_by_id
    /\ account_by_id = LedgerDefault.account_by_id
    /\ panicked = LedgerDefault.panicked
    /\ outcome = LedgerDefault.outcome
    /\ last = None
    /\ steps = 0
    /\ non_negative = TRUE
    /\ plain = TRUE
    /\ deposited = {}
    /\ dispute_since = {}
    /\ dispute_open = {}
    /\ charged = {}
    /\ net = [c \in Clients |-> 0]

\* main(): one iteration of the loop over the records of the stream
Step(t) ==
    /\ ~panicked
    /\ steps < MaxSteps
    /\ LET l == process(ledger, t)
       IN  /\ transactions_by_id' = l.transactions_by_id
           /\ account_by_id' = l.account_by_id
           /\ panicked' = l.panicked
           /\ outcome' = l.outcome
           /\ charged' = IF t.transaction_type = "Chargeback"
                             /\ l.outcome = "applied"
                          THEN charged \cup {t.client_id}
                          ELSE charged
           /\ net' =
                  CASE t.transaction_type = "Deposit" /\ is_some(t.amount) ->
                           [net EXCEPT ![t.client_id] = @ + unwrap(t.amount)]
                    [] t.transaction_type = "Withdrawal"
                       /\ l.outcome = "applied" ->
                           [net EXCEPT ![t.client_id] = @ - unwrap(t.amount)]
                    [] t.transaction_type = "Chargeback"
                       /\ l.outcome = "applied" ->
                           [net EXCEPT ![t.client_id] =
                               @ - unwrap(transactions_by_id[t.transaction_id].amount)]
                    [] OTHER -> net
    /\ last' = Some(t)
    /\ steps' = steps + 1
    /\ non_negative' = (non_negative /\
                          (t.transaction_type \in {"Deposit", "Withdrawal"}
                           /\ is_some(t.amount) => unwrap(t.amount) >= 0))
    /\ plain' = (/\ plain
                 /\ ~t.disputed
                 /\ t.transaction_type \in {"Deposit", "Withdrawal"}
                    => is_some(t.amount) /\ unwrap(t.amount) >= 0)
    /\ deposited' = IF t.transaction_type = "Deposit"
                    THEN deposited \cup {t.client_id}
                    ELSE deposited
    /\ dispute_since' =
           IF t.transaction_type = "Dispute"
           THEN dispute_since \cup {<<t.client_id, t.transaction_id>>}
           ELSE {p \in dispute_since : p[2] # t.transaction_id}
    /\ dispute_open' =
           CASE t.transaction_type = "Dispute" ->
                    dispute_open \cup {<<t.client_id, t.transaction_id>>}
             [] t.transaction_type \in {"Resolve", "Chargeback"} ->
                    IF t.client_id \in DOMAIN account_by_id
                    THEN dispute_open \ {<<t.client_id, t.transaction_id>>}
                    ELSE dispute_open
             [] OTHER ->
                    {p \in dispute_open : p[2] # t.transaction_id}
                    \cup (IF t.disputed
                          THEN {<<t.client_id, t.transaction_id>>}
                          ELSE {})

\* process(): the Deposit arm of the match
Deposit ==
    \E t \in Records("Deposit") :
        /\ t.transaction_type = "Deposit"
        /\ Step(t)

\* process(): the Withdrawal arm of the match
Withdrawal ==
    \E t \in Records("Withdrawal") :
        /\ t.transaction_type = "Withdrawal"
        /\ Step(t)

\* process(): the Dispute arm of the match
Dispute ==
    \E t \in Records("Dispute") :
        /\ t.transaction_type = "Dispute"
        /\ Step(t)

\* process(): the Resolve arm of the match
Resolve ==
    \E t \in Records("Resolve") :
        /\ t.transaction_type = "Resolve"
        /\ Step(t)

\* process(): the Chargeback arm of the match
Chargeback ==
    \E t \in Records("Chargeback") :
        /\ t.transaction_type = "Chargeback"
        /\ Step(t)

Next == Deposit \/ Withdrawal \/ Dispute \/ Resolve \/ Chargeback

Spec == Init /\ [][Next]_vars

\* ---- properties ------------------------------------------------------------
Account(c) == account_by_id[c]

Stored(id) == transactions_by_id[id]

Called(type) == is_some(last) /\ unwrap(last).transaction_type = type

\* The two mappings of a ledger, which is all that get_account and main()'s
\* output can see of it.
Maps(l) == <<l.transactions_by_id, l.account_by_id>>

\* C1: after any sequence of process() calls, every account of the ledger has
\* total = available + held.
C1_TotalIsAvailablePlusHeld ==
    \A c \in DOMAIN account_by_id :
        Account(c).total = Account(c).available + Account(c).held

\* C1 witness: a chargeback has just taken a non-zero amount out of held and
\* total, and a withdrawal-bearing history exists beside it.
C1_Witness ==
    /\ Called("Chargeback")
    /\ outcome = "applied"
    /\ unwrap(Stored(unwrap(last).transaction_id).amount) > 0
    /\ Account(unwrap(last).client_id).total =
           Account(unwrap(last).client_id).available
           + Account(unwrap(last).client_id).held

\* C2: while every Deposit/Withdrawal amount of the stream has been >= 0, every
\* account's available, held and total are >= 0.
C2_NonNegativeBalances ==
    non_negative =>
        \A c \in DOMAIN account_by_id :
            /\ Account(c).available >= 0
            /\ Account(c).held >= 0
            /\ Account(c).total >= 0

\* C2 witness: a stream of non-negative amounts in which a withdrawal of more
\* than the available funds has just been rejected.
C2_Witness ==
    /\ non_negative
    /\ Called("Withdrawal")
    /\ outcome = "rejected"
    /\ unwrap(unwrap(last).amount) > Account(unwrap(last).client_id).available
    /\ Account(unwrap(last).client_id).available >= 0

\* C3: process() never panics, whatever record it is given in whatever
\* reachable ledger.
C3_NeverPanics == ~panicked

\* C4 as stated: a call that took a rejection branch leaves both mappings,
\* history and accounts, as they were (already so on the streams of the input
\* format: amounts present and non-negative, no disputed column).
C4_RejectionLeavesLedgerUnchanged ==
    [][plain' /\ outcome' = "rejected" =>
          /\ transactions_by_id' = transactions_by_id
          /\ account_by_id' = account_by_id]_vars

\* What a rejected call of record t leaves in history, h being the history
\* before it.
HistoryAfterRejection(h, t) ==
    IF t.transaction_type = "Withdrawal"
    THEN insert(h, t.transaction_id, t)
    ELSE IF t.transaction_id \notin DOMAIN h
    THEN h
    ELSE [h EXCEPT ![t.transaction_id].disputed = (t.transaction_type = "Dispute")]

\* C4 amended: a call that took a rejection branch leaves every account as it
\* was; a Dispute/Resolve/Chargeback of an unknown id leaves history as it was
\* too, a rejected Withdrawal is recorded under its id, a rejected Dispute
\* leaves the referenced transaction flagged, a rejected Resolve/Chargeback
\* leaves it unflagged, and no other history entry changes.
C4_RejectionLeavesAccountsUnchanged ==
    [][outcome' = "rejected" /\ steps' # steps =>
          /\ account_by_id' = account_by_id
          /\ transactions_by_id' =
                 HistoryAfterRejection(transactions_by_id, unwrap(last'))]_vars

\* C4 witness: a Dispute was rejected for want of available funds, no funds
\* are held, and the disputed transaction is flagged all the same.
C4_Witness ==
    /\ Called("Dispute")
    /\ outcome = "rejected"
    /\ unwrap(last).transaction_id \in DOMAIN transactions_by_id
    /\ Stored(unwrap(last).transaction_id).disputed
    /\ unwrap(Stored(unwrap(last).transaction_id).amount) > 0
    /\ Account(unwrap(last).client_id).held = 0

RECURSIVE SumAmounts(_)
\* Sum of the amounts stored under the ids of S (an absent amount counts 0)
SumAmounts(S) ==
    IF S = {} THEN 0
    ELSE LET id == CHOOSE x \in S : TRUE
         IN  (IF is_some(Stored(id).amount) THEN unwrap(Stored(id).amount) ELSE 0)
             + SumAmounts(S \ {id})

\* C5: every account's held is the sum of the amounts of the history
\* transactions of its client that are flagged disputed (already so on the
\* streams of the input format: amounts present and non-negative, no disputed
\* column).
C5_HeldIsSumOfDisputed ==
    plain =>
    \A c \in DOMAIN account_by_id :
        Account(c).held =
            SumAmounts({id \in DOMAIN transactions_by_id :
                           Stored(id).client_id = c /\ Stored(id).disputed})

\* C6: processing a Resolve or a Chargeback record a second time changes
\* neither mapping.
C6_ResolveChargebackIdempotent ==
    \A t \in Records("Resolve") \cup Records("Chargeback") :
        Maps(process(process(ledger, t), t)) = Maps(process(ledger, t))

\* C6 witness: a Resolve has just released a non-zero amount, and the same
\* record processed again is rejected and changes nothing.
C6_Witness ==
    /\ Called("Resolve")
    /\ outcome = "applied"
    /\ unwrap(Stored(unwrap(last).transaction_id).amount) > 0
    /\ process(ledger, unwrap(last)).outcome = "rejected"
    /\ Maps(process(ledger, unwrap(last))) = Maps(ledger)

\* C7: a Dispute, Resolve or Chargeback by a client other than the one stored
\* with the referenced transaction changes no account and no history entry.
C7_CrossClientNoOp ==
    \A t \in Records("Dispute") \cup Records("Resolve") \cup Records("Chargeback") :
        (/\ t.transaction_id \in DOMAIN transactions_by_id
         /\ Stored(t.transaction_id).client_id # t.client_id)
        => Maps(process(ledger, t)) = Maps(ledger)

\* C7 witness: a client with enough available funds has just disputed another
\* client's transaction, and nothing moved.
C7_Witness ==
    /\ Called("Dispute")
    /\ outcome = "ignored"
    /\ unwrap(last).transaction_id \in DOMAIN transactions_by_id
    /\ Stored(unwrap(last).transaction_id).client_id # unwrap(last).client_id
    /\ Stored(unwrap(last).transaction_id).client_id \in DOMAIN account_by_id
    /\ unwrap(last).client_id \in DOMAIN account_by_id
    /\ is_some(Stored(unwrap(last).transaction_id).amount)
    /\ Account(unwrap(last).client_id).available >
           unwrap(Stored(unwrap(last).transaction_id).amount)
    /\ ~Stored(unwrap(last).transaction_id).disputed

\* C8: a Dispute, Resolve or Chargeback of an id that is not in history
\* changes no account, creates none, and changes no history entry.
C8_UnknownIdNoOp ==
    \A t \in Records("Dispute") \cup Records("Resolve") \cup Records("Chargeback") :
        t.transaction_id \notin DOMAIN transactions_by_id
        => Maps(process(ledger, t)) = Maps(ledger)

\* C8 witness: a client without an account has just disputed an id that is
\* not in history, in a ledger that holds other accounts and transactions.
C8_Witness ==
    /\ Called("Dispute")
    /\ outcome = "rejected"
    /\ unwrap(last).transaction_id \notin DOMAIN transactions_by_id
    /\ unwrap(last).client_id \notin DOMAIN account_by_id
    /\ DOMAIN account_by_id # {}
    /\ DOMAIN transactions_by_id # {}

\* C9: an account exists only for a client of a processed Deposit record, and
\* whenever process() has returned, get_account(c) is Some exactly for the
\* clients of the Deposit records processed.
C9_AccountIffDeposited ==
    /\ \A c \in DOMAIN account_by_id : c \in deposited
    /\ ~panicked =>
           \A c \in Clients : (get_account(ledger, c) # None) <=> (c \in deposited)

\* C9 witness: a Withdrawal, a Dispute, a Resolve or a Chargeback of a client
\* that never deposited has returned, and only the depositing client has an
\* account.
C9_Witness ==
    /\ ~panicked
    /\ is_some(last)
    /\ unwrap(last).transaction_type # "Deposit"
    /\ get_account(ledger, unwrap(last).client_id) = None
    /\ deposited # {}
    /\ \A c \in deposited : get_account(ledger, c) # None

DisputeOf(c, id) ==
    [transaction_type |-> "Dispute", client_id |-> c, transaction_id |-> id,
     amount |-> None, disputed |-> FALSE]

ResolveOf(c, id) ==
    [transaction_type |-> "Resolve", client_id |-> c, transaction_id |-> id,
     amount |-> None, disputed |-> FALSE]

\* Dispute(c, id) immediately followed by Resolve(c, id)
DisputeThenResolve(c, id) ==
    process(process(ledger, DisputeOf(c, id)), ResolveOf(c, id))

RoundTrip(c, id) ==
    LET l == DisputeThenResolve(c, id)
    IN  /\ l.account_by_id[c].available = Account(c).available
        /\ l.account_by_id[c].held = Account(c).held
        /\ l.account_by_id[c].total = Account(c).total
        /\ ~l.transactions_by_id[id].disputed

\* C10 as stated: for every transaction in history owned by a client that has
\* an account, Dispute then Resolve restores the client's available, held and
\* total and leaves the transaction unflagged (already so on the streams of
\* the input format: amounts present and non-negative, no disputed column).
C10_DisputeResolveRoundTrip ==
    plain /\ ~panicked =>
        \A id \in DOMAIN transactions_by_id :
            Stored(id).client_id \in DOMAIN account_by_id
            => RoundTrip(Stored(id).client_id, id)

\* C10 amended: the same, for the transactions whose amount is strictly below
\* the client's available funds (the Dispute moves the funds) when the
\* client's held funds are not negative.
C10_AppliedDisputeResolveRoundTrip ==
    ~panicked =>
        \A id \in DOMAIN transactions_by_id :
            (/\ Stored(id).client_id \in DOMAIN account_by_id
             /\ is_some(Stored(id).amount)
             /\ Account(Stored(id).client_id).available > unwrap(Stored(id).amount)
             /\ Account(Stored(id).client_id).held >= 0)
            => RoundTrip(Stored(id).client_id, id)

\* C10 witness: a Resolve has just released a non-zero amount that a Dispute
\* had moved, the balances are those of a round trip (nothing held), and the
\* same transaction can make the trip again.
C10_Witness ==
    /\ Called("Resolve")
    /\ outcome = "applied"
    /\ unwrap(Stored(unwrap(last).transaction_id).amount) > 0
    /\ Account(unwrap(last).client_id).held = 0
    /\ Account(unwrap(last).client_id).available >
           unwrap(Stored(unwrap(last).transaction_id).amount)
    /\ process(ledger, DisputeOf(unwrap(last).client_id,
                                 unwrap(last).transaction_id)).outcome = "applied"
    /\ RoundTrip(unwrap(last).client_id, unwrap(last).transaction_id)

ChargebackOf(c, id) ==
    [transaction_type |-> "Chargeback", client_id |-> c, transaction_id |-> id,
     amount |-> None, disputed |-> FALSE]

WithdrawalOf(c, id, a) ==
    [transaction_type |-> "Withdrawal", client_id |-> c, transaction_id |-> id,
     amount |-> Some(a), disputed |-> FALSE]

\* C11: a Chargeback of a transaction that is found, owned by the client,
\* flagged disputed and covered by held takes exactly its amount out of held
\* and out of total, leaves available as it was, locks the account and
\* unflags the transaction.
C11_ChargebackApplied ==
    ~panicked =>
        \A id \in DOMAIN transactions_by_id :
            LET c == Stored(id).client_id
                l == process(ledger, ChargebackOf(c, id))
            IN  (/\ c \in DOMAIN account_by_id
                 /\ Stored(id).disputed
                 /\ is_some(Stored(id).amount)
                 /\ Account(c).held >= unwrap(Stored(id).amount))
                => /\ l.account_by_id[c].held =
                          Account(c).held - unwrap(Stored(id).amount)
                   /\ l.account_by_id[c].total =
                          Account(c).total - unwrap(Stored(id).amount)
                   /\ l.account_by_id[c].available = Account(c).available
                   /\ l.account_by_id[c].locked
                   /\ ~l.transactions_by_id[id].disputed

\* C11 witness: a Chargeback has just taken a non-zero amount out of an
\* account that still has available funds: the account is locked, nothing is
\* held any more and the transaction is unflagged.
C11_Witness ==
    /\ Called("Chargeback")
    /\ outcome = "applied"
    /\ unwrap(Stored(unwrap(last).transaction_id).amount) > 0
    /\ ~Stored(unwrap(last).transaction_id).disputed
    /\ Account(unwrap(last).client_id).locked
    /\ Account(unwrap(last).client_id).held = 0
    /\ Account(unwrap(last).client_id).available > 0

\* C12: for a client that has an account, a Withdrawal of amount a takes a
\* out of available and out of total and leaves held as it was when
\* available >= a, and leaves the account as it was when available < a.
C12_WithdrawalIffCovered ==
    ~panicked =>
        \A t \in Records("Withdrawal") :
            (t.client_id \in DOMAIN account_by_id /\ is_some(t.amount))
            => LET c == t.client_id
                   a == unwrap(t.amount)
                   l == process(ledger, t)
               IN  IF Account(c).available >= a
                   THEN /\ l.outcome = "applied"
                        /\ l.account_by_id[c] =
                               [Account(c) EXCEPT
                                   !.available = Account(c).available - a,
                                   !.total = Account(c).total - a]
                   ELSE /\ l.outcome = "rejected"
                        /\ l.account_by_id[c] = Account(c)

\* C12 witness: a Withdrawal of exactly the available funds has just been
\* applied, and one unit more is refused.
C12_Witness ==
    /\ Called("Withdrawal")
    /\ outcome = "applied"
    /\ unwrap(unwrap(last).amount) > 0
    /\ Account(unwrap(last).client_id).available = 0
    /\ process(ledger, WithdrawalOf(unwrap(last).client_id, 1, 1)).outcome
           = "rejected"

\* The stored type, client and amount of id are the same after the step
SameFact(id) ==
    /\ transactions_by_id'[id].transaction_type = Stored(id).transaction_type
    /\ transactions_by_id'[id].client_id = Stored(id).client_id
    /\ transactions_by_id'[id].amount = Stored(id).amount

\* The disputed flag of id changes in the step only by a Dispute of id (to
\* true) or by a Resolve or Chargeback of id (to false)
FlagRule(id) ==
    transactions_by_id'[id].disputed # Stored(id).disputed
    => /\ steps' # steps
       /\ unwrap(last').transaction_id = id
       /\ \/ /\ unwrap(last').transaction_type = "Dispute"
             /\ transactions_by_id'[id].disputed
          \/ /\ unwrap(last').transaction_type \in {"Resolve", "Chargeback"}
             /\ ~transactions_by_id'[id].disputed

\* The step processes a Deposit or Withdrawal record that carries id
Reuses(id) ==
    /\ steps' # steps
    /\ unwrap(last').transaction_type \in {"Deposit", "Withdrawal"}
    /\ unwrap(last').transaction_id = id

\* C13 as stated: once an id is in history its entry is never removed, its
\* type, client and amount never change, whatever record follows (a Deposit or
\* Withdrawal reusing the id included), and its disputed flag changes only by
\* Dispute (to true) and Resolve/Chargeback (to false); already so on the
\* streams of the input format.
C13_RecordedTransactionImmutable ==
    [][plain' =>
          \A id \in DOMAIN transactions_by_id :
              /\ id \in DOMAIN transactions_by_id'
              /\ SameFact(id)
              /\ FlagRule(id)]_vars

\* C13 amended: once an id is in history its entry is never removed; a
\* Dispute, Resolve or Chargeback record, and a Deposit or Withdrawal record
\* with another id, leave its type, client and amount as they were and change
\* its flag only by Dispute (to true) and Resolve/Chargeback (to false); a
\* Deposit or Withdrawal record reusing the id replaces the whole entry by
\* that record.
C13_RecordedTransactionReplacedOnlyByReuse ==
    [][\A id \in DOMAIN transactions_by_id :
          /\ id \in DOMAIN transactions_by_id'
          /\ IF Reuses(id)
             THEN transactions_by_id'[id] = unwrap(last')
             ELSE SameFact(id) /\ FlagRule(id)]_vars

\* C13 witness: the stream was a Deposit and then a Withdrawal, and history
\* holds one id: the Withdrawal reused the id of the Deposit and its record,
\* of another client, stands in the Deposit's place.
C13_Witness ==
    /\ steps = 2
    /\ Called("Withdrawal")
    /\ deposited # {}
    /\ unwrap(last).client_id \notin deposited
    /\ DOMAIN transactions_by_id = {unwrap(last).transaction_id}
    /\ Stored(unwrap(last).transaction_id) = unwrap(last)

\* C14: a Dispute of a transaction that is found and owned by a client that
\* has an account flags the transaction in every case, and moves its amount
\* from available to held, total staying as it was, exactly when available >
\* amount; otherwise no account changes.
C14_DisputeFlagsAlwaysMovesIfStrictlyCovered ==
    ~panicked =>
        \A id \in DOMAIN transactions_by_id :
            LET c == Stored(id).client_id
                l == process(ledger, DisputeOf(c, id))
            IN  c \in DOMAIN account_by_id
                => /\ l.transactions_by_id[id].disputed
                   /\ IF is_some(Stored(id).amount)
                         /\ Account(c).available > unwrap(Stored(id).amount)
                      THEN l.account_by_id =
                               [account_by_id EXCEPT
                                   ![c].available =
                                       Account(c).available
                                       - unwrap(Stored(id).amount),
                                   ![c].held =
                                       Account(c).held + unwrap(Stored(id).amount)]
                      ELSE l.account_by_id = account_by_id

\* C14 witness: a Dispute of a non-zero amount equal to the available funds
\* has just been refused: the transaction is flagged and nothing is held.
C14_Witness ==
    /\ Called("Dispute")
    /\ outcome = "rejected"
    /\ unwrap(last).transaction_id \in DOMAIN transactions_by_id
    /\ Stored(unwrap(last).transaction_id).disputed
    /\ unwrap(Stored(unwrap(last).transaction_id).amount) # 0
    /\ Account(unwrap(last).client_id).available =
           unwrap(Stored(unwrap(last).transaction_id).amount)
    /\ Account(unwrap(last).client_id).held = 0
    /\ Account(unwrap(last).client_id).total =
           Account(unwrap(last).client_id).available

\* C15: after a Resolve or Chargeback that returned, of a transaction that is
\* in history and owned by the record's client, the transaction is not
\* flagged disputed, whether or not funds moved and whether or not the client
\* has an account.
C15_FlagClearedAfterResolveOrChargeback ==
    (/\ Called("Resolve") \/ Called("Chargeback")
     /\ ~panicked
     /\ unwrap(last).transaction_id \in DOMAIN transactions_by_id
     /\ Stored(unwrap(last).transaction_id).client_id = unwrap(last).client_id)
    => ~Stored(unwrap(last).transaction_id).disputed

\* The Resolve and the Chargeback record of transaction id by client c.
Settlements(c, id) == {ResolveOf(c, id), ChargebackOf(c, id)}

\* C16 (as stated; violated): a Resolve or Chargeback of id by c changes an
\* account only if a Dispute of id by c was processed earlier and no Resolve,
\* Chargeback, Deposit or Withdrawal record carrying id, of any client, was
\* processed since; and on a transaction not flagged disputed it changes no
\* account field. Stated for streams of ordinary records.
C16_SettlesOnlyAfterUndisturbedDispute ==
    plain =>
        \A c \in Clients, id \in TxIds :
            \A t \in Settlements(c, id) :
                LET l == process(ledger, t)
                IN  /\ l.account_by_id # account_by_id
                          => <<c, id>> \in dispute_since
                    /\ (id \in DOMAIN transactions_by_id /\ ~Stored(id).disputed)
                          => l.account_by_id = account_by_id

\* C16 (amended): a Resolve or Chargeback of id by c changes an account only
\* if, since the last Deposit or Withdrawal record carrying id, that record
\* came flagged disputed for c or a Dispute of id by c was processed, and no
\* Resolve or Chargeback of id by c was processed since while c had an
\* account; and on a transaction not flagged disputed it changes no account
\* field.
C16_SettlesOnlyOpenDispute ==
    \A c \in Clients, id \in TxIds :
        \A t \in Settlements(c, id) :
            LET l == process(ledger, t)
            IN  /\ l.account_by_id # account_by_id
                      => <<c, id>> \in dispute_open
                /\ (id \in DOMAIN transactions_by_id /\ ~Stored(id).disputed)
                      => l.account_by_id = account_by_id

\* C16 witness: a Resolve has just released a non-zero amount that a Dispute
\* had held, on ordinary input: the dispute is no longer open and a second
\* Resolve or Chargeback of the same transaction would change nothing.
C16_Witness ==
    /\ Called("Resolve")
    /\ outcome = "applied"
    /\ plain
    /\ LET c == unwrap(last).client_id
           id == unwrap(last).transaction_id
       IN  /\ Account(c).held = 0
           /\ Account(c).available = 2
           /\ unwrap(Stored(id).amount) = 1
           /\ <<c, id>> \notin dispute_open
           /\ \A t \in Settlements(c, id) :
                  process(ledger, t).account_by_id = account_by_id

\* C17: locked is monotone and tied to chargebacks. An account is locked if
\* and only if a Chargeback was applied to it earlier (the branch of
\* chargeback that takes the amount out of held and total ran); no record
\* unlocks a locked account; and an account that a record creates is created
\* unlocked.
C17_LockedIffChargedAndMonotone ==
    /\ \A c \in DOMAIN account_by_id : Account(c).locked <=> c \in charged
    /\ charged \subseteq DOMAIN account_by_id
    /\ \A t \in Transaction :
           LET l == process(ledger, t)
           IN  \A c \in DOMAIN l.account_by_id :
                   IF c \in DOMAIN account_by_id
                   THEN Account(c).locked => l.account_by_id[c].locked
                   ELSE ~l.account_by_id[c].locked

\* C17 witness: on ordinary input, a Chargeback has just been applied to an
\* account that was unlocked until then and took a non-zero amount out of it:
\* the account is locked, and a Deposit to it would be applied and leave it
\* locked.
C17_Witness ==
    /\ plain
    /\ Called("Chargeback")
    /\ outcome = "applied"
    /\ LET c == unwrap(last).client_id
       IN  /\ charged = {c}
           /\ Account(c).locked
           /\ unwrap(Stored(unwrap(last).transaction_id).amount) > 0
           /\ \E t \in Records("Deposit") :
                  LET l == process(ledger, t)
                  IN  /\ t.client_id = c
                      /\ l.outcome = "applied"
                      /\ l.account_by_id[c].total > Account(c).total
                      /\ l.account_by_id[c].locked

\* The ledger l with the locked flag of the accounts in F inverted.
FlipLocked(l, F) ==
    [l EXCEPT !.account_by_id =
        [c \in DOMAIN l.account_by_id |->
            IF c \in F
            THEN [l.account_by_id[c] EXCEPT !.locked = ~l.account_by_id[c].locked]
            ELSE l.account_by_id[c]]]

\* What a ledger holds apart from the locked flags: the history, each account's
\* balances, and the branch the last call took.
Unlocked(l) ==
    [transactions_by_id |-> l.transactions_by_id,
     balances |-> [c \in DOMAIN l.account_by_id |->
                      <<l.account_by_id[c].available, l.account_by_id[c].held,
                        l.account_by_id[c].total>>],
     panicked |-> l.panicked,
     outcome |-> l.outcome]

\* C18: locked never gates processing. Whenever a record is processed, then
\* from every ledger that differs from the current one only in the locked flag
\* of some accounts, processing the same record gives a ledger that agrees
\* with the one reached on every history entry, on every account's available,
\* held and total, and on the branch taken: a locked account accepts what an
\* unlocked one accepts.
C18_LockedNeverGates ==
    [][LET reached == Unlocked(ledger')
       IN  \A F \in (SUBSET DOMAIN account_by_id) \ {{}} :
               Unlocked(process(FlipLocked(ledger, F), unwrap(last')))
                   = reached]_vars

\* C18 witness: a Withdrawal of a non-zero amount has just been applied to a
\* locked account.
C18_Witness ==
    /\ Called("Withdrawal")
    /\ outcome = "applied"
    /\ unwrap(unwrap(last).amount) > 0
    /\ Account(unwrap(last).client_id).locked

\* C19: conservation of funds. Each account's total is the sum of the amounts
\* of the Deposit records processed for its client, minus the amounts of the
\* Withdrawals applied to it, minus the amounts of the Chargebacks applied to
\* it; and no Dispute or Resolve changes a total.
C19_TotalIsNetOfDepositsWithdrawalsChargebacks ==
    /\ \A c \in DOMAIN account_by_id : Account(c).total = net[c]
    /\ \A t \in Records("Dispute") \cup Records("Resolve") :
           LET l == process(ledger, t)
           IN  \A c \in DOMAIN account_by_id :
                   l.account_by_id[c].total = Account(c).total

\* C19 witness: on ordinary input, an account that received two deposits of 1
\* and then lost 1 to an applied Chargeback, after a Dispute had held it, has
\* a total of 1.
C19_Witness ==
    /\ plain
    /\ Called("Chargeback")
    /\ outcome = "applied"
    /\ LET c == unwrap(last).client_id
       IN  /\ unwrap(Stored(unwrap(last).transaction_id).amount) = 1
           /\ Account(c).total = 1
           /\ Account(c).available = 1
           /\ net[c] = 1

\* C20: per-client account isolation. Processing any record of client c, of
\* any type and carrying any transaction id, leaves the account of every
\* other client as it is in all fields, and neither creates nor removes an
\* account for another client.
C20_OtherAccountsUntouched ==
    \A t \in Transaction :
        LET l == process(ledger, t)
        IN  \A d \in Clients \ {t.client_id} :
                get_account(l, d) = get_account(ledger, d)

\* C20 witness: two clients have an account with funds, and a Dispute of one
\* client has just moved funds into held in its own account while the other
\* client's account holds what it was given.
C20_Witness ==
    /\ Called("Dispute")
    /\ outcome = "applied"
    /\ plain
    /\ LET c == unwrap(last).client_id
       IN  /\ Account(c).held > 0
           /\ \E d \in DOMAIN account_by_id \ {c} :
                  /\ Account(d).available = 1
                  /\ Account(d).held = 0
                  /\ Account(d).total = 1
                  /\ ~Account(d).locked

====
